---------------------------- MODULE Spec2Model ----------------------------
(***************************************************************************)
(* FloatChat: plot-intent classifier, query-intent extractor, data summary *)
(* builder and the pipeline orchestrator (LightweightFloatChatPipeline).   *)
(*                                                                         *)
(* Conventions                                                             *)
(*   - text is a TLA+ string; Python's `in`, lower(), title(), strip() are *)
(*     computed character by character with Len/SubSeq/\o;                 *)
(*   - confidences are per-mille integers: 0.9 is 900, 0.08 is 80;         *)
(*   - a data frame is [nrows, cols] with cols a function from the column  *)
(*     names to the sequence of the column's cells.                        *)
(***************************************************************************)
EXTENDS Integers, Sequences, FiniteSets, TLC

VARIABLES
    call,        \* arguments of a direct call of one component method
    ret,         \* what that call returned (NoValue before the call)
    available,   \* pipeline: sql_generator and chatbot were constructed
    pc,          \* pipeline: position inside process_user_query
    req,         \* pipeline: locals of the running request
    trace,       \* pipeline: stages entered and handlers run by the request
    faults,      \* pipeline: what went wrong in the collaborators of the request
    clock,       \* pipeline: time.time()
    response,    \* pipeline: the value process_user_query returned
    conversation_history   \* FloatChatBot.conversation_history

vars == <<call, ret, available, pc, req, trace, faults, clock, response,
          conversation_history>>

\* no value yet (no call made, nothing returned)
NoValue == [none |-> TRUE]

\* Python's None where the other values are strings
None == "<None>"

-----------------------------------------------------------------------------
(* Bounds *)

ProbSteps == 4          \* predict_proba values are k/ProbSteps, k = 0..ProbSteps
MaxRows == 2            \* rows of a table the database returns

-----------------------------------------------------------------------------
(* Text *)

UpperLetters == "ABCDEFGHIJKLMNOPQRSTUVWXYZ"
LowerLetters == "abcdefghijklmnopqrstuvwxyz"

CharAt(s, i) == SubSeq(s, i, i)

LowerChar(c) ==
    IF \E i \in 1..26 : CharAt(UpperLetters, i) = c
    THEN CharAt(LowerLetters, CHOOSE i \in 1..26 : CharAt(UpperLetters, i) = c)
    ELSE c

UpperChar(c) ==
    IF \E i \in 1..26 : CharAt(LowerLetters, i) = c
    THEN CharAt(UpperLetters, CHOOSE i \in 1..26 : CharAt(LowerLetters, i) = c)
    ELSE c

\* str.lower(); the recursions halve the text, which keeps them shallow
\* on long text
RECURSIVE Lower(_)
Lower(s) ==
    IF Len(s) <= 1 THEN LowerChar(s)
    ELSE Lower(SubSeq(s, 1, Len(s) \div 2))
            \o Lower(SubSeq(s, Len(s) \div 2 + 1, Len(s)))

\* str.upper()
RECURSIVE Upper(_)
Upper(s) ==
    IF Len(s) <= 1 THEN UpperChar(s)
    ELSE Upper(SubSeq(s, 1, Len(s) \div 2))
            \o Upper(SubSeq(s, Len(s) \div 2 + 1, Len(s)))

\* str.title(): a letter that follows a non-letter is upper-cased, any other
\* letter lower-cased
RECURSIVE TitleRange(_, _, _)
TitleRange(s, lo, hi) ==
    IF lo > hi THEN ""
    ELSE IF lo = hi
    THEN IF lo > 1 /\ \E i \in 1..26 : CharAt(s, lo - 1) \in
                        {CharAt(UpperLetters, i), CharAt(LowerLetters, i)}
         THEN LowerChar(CharAt(s, lo)) ELSE UpperChar(CharAt(s, lo))
    ELSE TitleRange(s, lo, (lo + hi) \div 2) \o TitleRange(s, (lo + hi) \div 2 + 1, hi)

Title(s) == TitleRange(s, 1, Len(s))

\* Python's `kw in s`
Contains(s, kw) ==
    \E i \in 1..(Len(s) - Len(kw) + 1) : SubSeq(s, i, i + Len(kw) - 1) = kw

\* any(word in s for word in words)
AnyIn(words, s) == \E w \in words : Contains(s, w)

StartsWith(s, p) == Len(s) >= Len(p) /\ SubSeq(s, 1, Len(p)) = p

Max2(a, b) == IF a >= b THEN a ELSE b

-----------------------------------------------------------------------------
(* LightweightPlotGenerator.classify_prompt *)

\* fixed chart-type set of the data model
ChartTypes == {"profile", "time_series", "map", "ts_diagram", "3d_scatter",
               "cross_section"}

plot_labels == <<"profile", "time_series", "ts_diagram", "map", "3d_scatter",
                 "cross_section">>

plot_categories == <<"profile", "time_series", "map", "ts_diagram", "3d_scatter">>

Categories == {plot_categories[i] : i \in 1..Len(plot_categories)}

\* predict_proba of one fitted estimator for one sample: the row <<P(0), P(1)>>

\* MultiOutputClassifier.predict_proba(X): one (n_samples x n_classes) array
\* per label of plot_labels; X holds the single prompt
predict_proba(p1) == [i \in 1..Len(plot_labels) |-> << <<1000 - p1[i], p1[i]>> >>]

\* lines 133-145: predictions is the array of the FIRST label only, so
\* len(predictions) is the number of samples (1)
LexicalScores(p1) ==
    LET predictions == predict_proba(p1)[1]
    IN  [label \in Categories |->
            LET i == (CHOOSE k \in 1..Len(plot_categories) :
                          plot_categories[k] = label) - 1
            IN  IF Len(predictions) > i THEN Max2(predictions[i + 1][1], predictions[i + 1][2])
                ELSE 100]

ProfileWords == {"profile", "depth", "vertical", "temperature profile",
                 "salinity profile"}
TimeWords == {"time", "temporal", "over time", "series", "trend", "evolution"}
MapWords == {"map", "geographic", "spatial", "location", "region", "area",
             "mumbai", "chennai", "goa", "kerala"}
TSWords == {"salinity", "water mass", "ts", "t-s", "temperature.*salinity"}
ThreeDWords == {"3d", "three", "dimensional", "scatter", "visualization",
                "interactive"}
OceanWords == {"ocean", "water", "analysis", "data", "show me", "analyze"}

\* lines 160-163
ProfileGroup(s, pl) ==
    IF AnyIn(ProfileWords, pl)
    THEN [s EXCEPT !["profile"] = 900, !["ts_diagram"] = 700, !["3d_scatter"] = 600]
    ELSE s

\* lines 166-169
TimeGroup(s, pl) ==
    IF AnyIn(TimeWords, pl)
    THEN [s EXCEPT !["time_series"] = 900, !["map"] = 600, !["profile"] = 500]
    ELSE s

\* lines 172-175
MapGroup(s, pl) ==
    IF AnyIn(MapWords, pl)
    THEN [s EXCEPT !["map"] = 900, !["3d_scatter"] = 800, !["profile"] = 600]
    ELSE s

\* lines 178-181
TSGroup(s, pl) ==
    IF AnyIn(TSWords, pl)
    THEN [s EXCEPT !["ts_diagram"] = 900, !["profile"] = 800, !["3d_scatter"] = 600]
    ELSE s

\* lines 184-187
ThreeDGroup(s, pl) ==
    IF AnyIn(ThreeDWords, pl)
    THEN [s EXCEPT !["3d_scatter"] = 900, !["profile"] = 600, !["map"] = 700]
    ELSE s

\* lines 190-193
OceanGroup(s, pl) ==
    IF AnyIn(OceanWords, pl)
    THEN [s EXCEPT !["3d_scatter"] = Max2(s["3d_scatter"], 700),
                   !["profile"] = Max2(s["profile"], 600),
                   !["map"] = Max2(s["map"], 600)]
    ELSE s

\* lines 148-193: the groups are scanned in this order on the lowercased prompt
intelligent_scores(prompt) ==
    LET pl == Lower(prompt)
    IN  OceanGroup(ThreeDGroup(TSGroup(MapGroup(TimeGroup(ProfileGroup(
            [label \in Categories |-> 0], pl), pl), pl), pl), pl), pl)

\* a blend that takes the lexical score at full weight
BlendUnweighted(rule, ml) ==
    [label \in Categories |-> Max2(rule[label], ml[label])]

\* lines 196-202
Blend(rule, ml) ==
    [label \in Categories |-> Max2(rule[label], (ml[label] * 8) \div 10)]

MaxScore(s) == CHOOSE m \in {s[l] : l \in DOMAIN s} : \A l \in DOMAIN s : s[l] <= m

\* lines 205-209
ApplyFloor(s) ==
    IF MaxScore(s) < 400
    THEN [s EXCEPT !["3d_scatter"] = 800, !["profile"] = 700, !["map"] = 600]
    ELSE s

\* line 212: dict order is the order of plot_categories
AboveThreshold(s, threshold) ==
    SelectSeq(plot_categories, LAMBDA label : s[label] >= threshold)

InSeq(x, seq) == \E i \in 1..Len(seq) : seq[i] = x

\* sorted(..., key=score, reverse=True) is stable: equal scores keep their order
InsertDesc(sorted, x, s) ==
    LET k == Cardinality({i \in 1..Len(sorted) : s[sorted[i]] >= s[x]})
    IN  SubSeq(sorted, 1, k) \o <<x>> \o SubSeq(sorted, k + 1, Len(sorted))

RECURSIVE SortDesc(_, _)
SortDesc(seq, s) ==
    IF seq = <<>> THEN <<>>
    ELSE InsertDesc(SortDesc(SubSeq(seq, 1, Len(seq) - 1), s), seq[Len(seq)], s)

FirstN(seq, n) == SubSeq(seq, 1, IF Len(seq) < n THEN Len(seq) ELSE n)

\* lines 218-221: one pass over the three best labels of the snapshot `snap`
RECURSIVE FillLoop(_, _, _)
FillLoop(todo, snap, st) ==
    IF todo = <<>> THEN st
    ELSE LET plot_type == Head(todo)
             st1 == IF ~InSeq(plot_type, st.chosen) /\ snap[plot_type] > 200
                    THEN [chosen |-> Append(st.chosen, plot_type),
                          scores |-> [st.scores EXCEPT ![plot_type] =
                                        Max2(st.scores[plot_type], 500)]]
                    ELSE st
         IN  FillLoop(Tail(todo), snap, st1)

\* lines 215-221
FillToTwo(st) ==
    IF Len(st.chosen) < 2
    THEN FillLoop(FirstN(SortDesc(plot_categories, st.scores), 3), st.scores, st)
    ELSE st

\* lines 224-227
ForceDefault(st) ==
    IF st.chosen = <<>>
    THEN [chosen |-> <<"3d_scatter", "profile">>,
          scores |-> [st.scores EXCEPT !["3d_scatter"] = 800, !["profile"] = 700]]
    ELSE st

\* a selection that is never cut down to four labels
LimitPlotsUncut(st) == st

\* a cut that keeps the first four labels without sorting them by score
LimitPlotsUnsorted(st) ==
    IF Len(st.chosen) > 4 THEN [st EXCEPT !.chosen = FirstN(st.chosen, 4)] ELSE st

\* lines 230-233
LimitPlots(st) ==
    IF Len(st.chosen) > 4
    THEN [st EXCEPT !.chosen = FirstN(SortDesc(st.chosen, st.scores), 4)]
    ELSE st

\* a fallback that is the forced default pair of lines 224-227
ClassifyFallbackPair ==
    [chosen |-> <<"3d_scatter", "profile">>,
     scores |-> [label \in Categories |->
                    CASE label = "3d_scatter" -> 800
                      [] label = "profile" -> 700
                      [] OTHER -> 0]]

\* lines 237-243
ClassifyFallback ==
    [chosen |-> <<"3d_scatter", "profile", "map">>,
     scores |-> [label \in Categories |->
                    CASE label = "3d_scatter" -> 800
                      [] label = "profile" -> 700
                      [] label = "map" -> 600
                      [] label = "ts_diagram" -> 400
                      [] label = "time_series" -> 300]]

\* blended scores before the floor rule
BlendedScores(prompt, p1) == Blend(intelligent_scores(prompt), LexicalScores(p1))

\* lines 123-243; raises: an exception thrown by the vectorizer, the classifier
\* or any later statement of the try block
classify_prompt(prompt, threshold, p1, raises) ==
    IF raises THEN ClassifyFallback
    ELSE LET enhanced_scores == ApplyFloor(BlendedScores(prompt, p1))
             st == [chosen |-> AboveThreshold(enhanced_scores, threshold),
                    scores |-> enhanced_scores]
         IN  LimitPlots(ForceDefault(FillToTwo(st)))

DefaultThreshold == 300

-----------------------------------------------------------------------------
(* Direct calls of classify_prompt *)

Prompts == {"",
            "hello",
            "show me the water profile of mumbai",
            "temperature over time",
            "Salinity Map",
            "profile map",
            "vertical section",
            "profile time map salinity 3d ocean",
            "x'; DROP TABLE argo_floats; --"}

Thresholds == {0, 80, DefaultThreshold, 500, 850, 1000}

\* classifier outputs: P(label) of the first label, and of every other label
ProbaInputs ==
    {[i \in 1..Len(plot_labels) |-> IF i = 1 THEN a ELSE b] :
        a, b \in {(k * 1000) \div ProbSteps : k \in 0..ProbSteps}}

IdlePipeline ==
    /\ available = TRUE
    /\ pc = "idle"
    /\ req = NoValue
    /\ trace = <<>>
    /\ faults = {}
    /\ clock = 0
    /\ response = NoValue
    /\ conversation_history = <<>>

pipelineVars ==
    <<available, pc, req, trace, faults, clock, response, conversation_history>>

InitClassify ==
    /\ call \in [op : {"classify_prompt"}, prompt : Prompts,
                 threshold : Thresholds, proba : ProbaInputs, raises : BOOLEAN]
    /\ ret = NoValue
    /\ IdlePipeline

CallClassifyPrompt ==
    /\ call # NoValue /\ call.op = "classify_prompt"
    /\ ret = NoValue
    /\ ret' = [value |-> classify_prompt(call.prompt, call.threshold, call.proba,
                                         call.raises)]
    /\ UNCHANGED <<call, pipelineVars>>

NextClassify == CallClassifyPrompt

SpecClassify == InitClassify /\ [][NextClassify]_vars

-----------------------------------------------------------------------------
(* Data frames *)

\* cells: a number, a timestamp (days since 2024-01-01), text, or NaN/None/NaT
Num(n) == [k |-> "num", n |-> n]
Date(d) == [k |-> "date", n |-> d]
Text == [k |-> "text", n |-> 0]
Null == [k |-> "null", n |-> 0]

\* float('nan') among the integers that stand for floats
NaN == -1000000

HasCol(df, name) == name \in DOMAIN df.cols

\* Series.dropna()
dropna(col) == SelectSeq(col, LAMBDA c : c.k # "null")

\* Series.isna().all(): also true of a column without rows
AllNull(col) == \A i \in 1..Len(col) : col[i].k = "null"

KindsOf(col) == {col[i].k : i \in 1..Len(col)}
Values(col) == {col[i].n : i \in 1..Len(col)}

SetMin(S) == CHOOSE m \in S : \A x \in S : m <= x
SetMax(S) == CHOOSE m \in S : \A x \in S : x <= m

RECURSIVE SeqSum(_)
SeqSum(col) ==
    IF col = <<>> THEN 0
    ELSE IF Len(col) = 1 THEN col[1].n
    ELSE SeqSum(SubSeq(col, 1, Len(col) \div 2))
            + SeqSum(SubSeq(col, Len(col) \div 2 + 1, Len(col)))

\* float(Series.min()), float(Series.max()), float(Series.mean()): nulls are
\* skipped, a column without a value gives NaN; text and timestamps make
\* float() raise (FloatRaises)
FloatRaises(col) == KindsOf(dropna(col)) \ {"num"} # {}
FloatMin(col) == IF dropna(col) = <<>> THEN NaN ELSE SetMin(Values(dropna(col)))
FloatMax(col) == IF dropna(col) = <<>> THEN NaN ELSE SetMax(Values(dropna(col)))
FloatMean(col) ==
    IF dropna(col) = <<>> THEN NaN ELSE SeqSum(dropna(col)) \div Len(dropna(col))

\* Timestamp.strftime("%Y-%m-%d") for a day of 2024
Digits == "0123456789"
TwoDigits(n) == CharAt(Digits, (n \div 10) + 1) \o CharAt(Digits, (n % 10) + 1)

RECURSIVE MonthOf(_, _)
MonthOf(d, m) ==
    LET days == <<31, 29, 31, 30, 31, 30, 31, 31, 30, 31, 30, 31>>[m]
    IN  IF d < days THEN <<m, d + 1>> ELSE MonthOf(d - days, m + 1)

strftime(d) ==
    LET md == MonthOf(d, 1) IN "2024-" \o TwoDigits(md[1]) \o "-" \o TwoDigits(md[2])

-----------------------------------------------------------------------------
(* LightweightFloatChatPipeline._get_*: the data summary builders *)

FallbackDateRange == [earliest |-> "2024-01-01", latest |-> "2024-12-31"]
FallbackGeoBounds == [north |-> 20, south |-> 18, east |-> 74, west |-> 71]
FallbackDepthRange == [surface |-> 0, bottom |-> 2000]
FallbackTempRange == [min |-> 2, max |-> 30, mean |-> 15]
FallbackSalinityRange == [min |-> 33, max |-> 37, mean |-> 35]

\* lines 156-168: a min() that is no Timestamp has no strftime, the bare
\* except then falls through to the literal
get_date_range(df) ==
    IF HasCol(df, "Date_Time") /\ ~AllNull(df.cols["Date_Time"])
    THEN LET col == dropna(df.cols["Date_Time"])
         IN  IF KindsOf(col) = {"date"}
             THEN [earliest |-> strftime(SetMin(Values(col))),
                   latest |-> strftime(SetMax(Values(col)))]
             ELSE FallbackDateRange
    ELSE FallbackDateRange

\* lines 170-182
get_geographic_bounds(df) ==
    IF HasCol(df, "Latitude") /\ HasCol(df, "Longitude")
    THEN LET lat == df.cols["Latitude"]
             lon == df.cols["Longitude"]
         IN  IF FloatRaises(lat) \/ FloatRaises(lon)
             THEN FallbackGeoBounds
             ELSE [north |-> FloatMax(lat), south |-> FloatMin(lat),
                   east |-> FloatMax(lon), west |-> FloatMin(lon)]
    ELSE FallbackGeoBounds

\* lines 184-194
get_depth_range(df) ==
    IF HasCol(df, "pressure_dbar")
    THEN LET col == df.cols["pressure_dbar"]
         IN  IF FloatRaises(col) THEN FallbackDepthRange
             ELSE [surface |-> FloatMin(col), bottom |-> FloatMax(col)]
    ELSE FallbackDepthRange

\* lines 196-207
get_temp_range(df) ==
    IF HasCol(df, "temperature_celsius")
    THEN LET col == df.cols["temperature_celsius"]
         IN  IF FloatRaises(col) THEN FallbackTempRange
             ELSE [min |-> FloatMin(col), max |-> FloatMax(col),
                   mean |-> FloatMean(col)]
    ELSE FallbackTempRange

\* lines 209-222
get_salinity_range(df) ==
    IF HasCol(df, "salinity_psu")
    THEN LET valid_salinity == dropna(df.cols["salinity_psu"])
         IN  IF Len(valid_salinity) > 0 /\ ~FloatRaises(valid_salinity)
             THEN [min |-> FloatMin(valid_salinity),
                   max |-> FloatMax(valid_salinity),
                   mean |-> FloatMean(valid_salinity)]
             ELSE FallbackSalinityRange
    ELSE FallbackSalinityRange

\* df.shape
Shape(df) == <<df.nrows, Cardinality(DOMAIN df.cols)>>

\* lines 83-91
build_data_summary(df) ==
    [data_shape |-> Shape(df),
     total_records |-> df.nrows,
     date_range |-> get_date_range(df),
     geographic_bounds |-> get_geographic_bounds(df),
     depth_range |-> get_depth_range(df),
     temp_range |-> get_temp_range(df),
     salinity_range |-> get_salinity_range(df)]

-----------------------------------------------------------------------------
(* Tables *)

\* columns of table argo_floats (the geometry column aside)
DbColumns == {"float_id", "latitude", "longitude", "pressure_dbar",
              "temperature_celsius", "salinity_psu", "date_time"}

\* fetch_data_from_db lines 330-340
column_mapping(name) ==
    CASE name = "float_id" -> "Float_ID"
      [] name = "latitude" -> "Latitude"
      [] name = "longitude" -> "Longitude"
      [] name = "pressure_dbar" -> "Pressure_dbar"
      [] name = "temperature_celsius" -> "Temperature_Celsius"
      [] name = "salinity_psu" -> "Salinity_PSU"
      [] name = "date_time" -> "Date_Time"
      [] OTHER -> name

\* DataFrame.rename(columns=column_mapping)
Rename(df) ==
    [df EXCEPT !.cols =
        [new \in {column_mapping(old) : old \in DOMAIN df.cols} |->
            df.cols[CHOOSE old \in DOMAIN df.cols : column_mapping(old) = new]]]

\* pd.to_datetime(errors='coerce') on a column: what is no timestamp is NaT
to_datetime(col) ==
    [i \in 1..Len(col) |-> IF col[i].k = "date" THEN col[i] ELSE Null]

\* a typical value of each column, used to fill the tables of the model
BaseValue(name) ==
    CASE name = "float_id" -> 5905529
      [] name = "latitude" -> 19
      [] name = "longitude" -> 72
      [] name = "pressure_dbar" -> 200
      [] name = "temperature_celsius" -> 24
      [] name = "salinity_psu" -> 34
      [] OTHER -> 0

\* the column `name` of an n-row table, filled as `fill` says
FilledColumn(name, fill, n) ==
    [i \in 1..n |->
        CASE fill = "null" -> Null
          [] fill = "text" -> Text
          [] fill = "partial" /\ i = 1 -> Null
          [] OTHER -> IF name = "date_time" THEN Date(10 * i)
                      ELSE Num(BaseValue(name) + i)]

\* the n-row table whose columns are filled as fills says
MakeTable(n, fills) ==
    [nrows |-> n,
     cols |-> [name \in {c \in DOMAIN fills : fills[c] # "missing"} |->
                  FilledColumn(name, fills[name], n)]]

-----------------------------------------------------------------------------
(* Direct calls of the summary builders *)

SummaryFills ==
    {f \in [DbColumns -> {"missing", "null", "text", "values", "partial"}] :
        /\ f["float_id"] = "values"
        /\ f["latitude"] # "partial" /\ f["longitude"] # "partial"
        /\ f["pressure_dbar"] # "partial"}

InitSummary ==
    /\ \E n \in 0..MaxRows, f \in SummaryFills, renamed \in BOOLEAN :
          call = [op |-> "summary", fills |-> f, renamed |-> renamed,
                  df |-> IF renamed THEN Rename(MakeTable(n, f)) ELSE MakeTable(n, f)]
    /\ ret = NoValue
    /\ IdlePipeline

CallBuildSummary ==
    /\ call # NoValue /\ call.op = "summary"
    /\ ret = NoValue
    /\ ret' = [value |-> build_data_summary(call.df)]
    /\ UNCHANGED <<call, pipelineVars>>

NextSummary == CallBuildSummary

SpecSummary == InitSummary /\ [][NextSummary]_vars

-----------------------------------------------------------------------------
(* SQLQueryGenerator *)

\* the backquote of a markdown fence; the tilde stands for it in this module
\* because a TLA+ string cannot hold a backquote
BackQuote == "~"
Fence == BackQuote \o BackQuote \o BackQuote

Drop(s, n) == SubSeq(s, n + 1, Len(s))

\* the least index of S
First(S) == CHOOSE i \in S : \A j \in S : i <= j

\* re.sub(pat + r'\n?', '', s) for a literal pat: the matches are removed
\* from left to right
RECURSIVE RemoveAll(_, _)
RemoveAll(s, pat) ==
    IF ~Contains(s, pat) THEN s
    ELSE LET i == First({k \in 1..Len(s) : StartsWith(Drop(s, k - 1), pat)})
             rest == Drop(s, i - 1 + Len(pat))
         IN  SubSeq(s, 1, i - 1)
                \o RemoveAll(IF StartsWith(rest, "\n") THEN Tail(rest) ELSE rest, pat)

\* index of the first ")" of s, 0 when there is none
FirstClose(s) ==
    IF \E i \in 1..Len(s) : CharAt(s, i) = ")"
    THEN CHOOSE i \in 1..Len(s) :
            CharAt(s, i) = ")" /\ \A j \in 1..(i - 1) : CharAt(s, j) # ")"
    ELSE 0

\* r'ST_Point\(([^)]+)\)' matches at index i of s
StPointAt(s, i) ==
    /\ StartsWith(Drop(s, i - 1), "ST_Point(")
    /\ FirstClose(Drop(s, i - 1 + Len("ST_Point("))) > 1

\* lines 124-130: re.sub(r'ST_Point\(([^)]+)\)', replace_st_point, s)
RECURSIVE FixStPoint(_)
FixStPoint(s) ==
    IF ~\E i \in 1..Len(s) : StPointAt(s, i) THEN s
    ELSE LET i == First({k \in 1..Len(s) : StPointAt(s, k)})
             rest == Drop(s, i - 1 + Len("ST_Point("))
             close == FirstClose(rest)
         IN  SubSeq(s, 1, i - 1)
                \o "ST_SetSRID(ST_Point(" \o SubSeq(rest, 1, close - 1) \o "), 4326)"
                \o FixStPoint(Drop(rest, close))

\* str.strip()
Strip(s) ==
    LET inked == {i \in 1..Len(s) : CharAt(s, i) \notin {" ", "\n", "\t", "\r"}}
    IN  IF inked = {} THEN ""
        ELSE SubSeq(s, First(inked), CHOOSE i \in inked : \A j \in inked : j <= i)

dangerous_keywords == {"DROP", "DELETE", "UPDATE", "INSERT", "CREATE", "ALTER",
                       "TRUNCATE"}

SafeQuery == "SELECT * FROM argo_floats ORDER BY date_time DESC LIMIT 1000;"

\* lines 134-136
EnsureSemicolon(s) ==
    IF Len(s) >= 1 /\ SubSeq(s, Len(s), Len(s)) = ";" THEN s ELSE s \o ";"

\* a keyword check that compares the query as written, without upper()
clean_sql_query_as_written(sql_query) ==
    LET unfenced == RemoveAll(RemoveAll(sql_query, Fence \o "sql"), Fence)
        ended == EnsureSemicolon(Strip(FixStPoint(unfenced)))
    IN  IF AnyIn(dangerous_keywords, ended) THEN SafeQuery ELSE ended

\* lines 117-145
clean_sql_query(sql_query) ==
    LET unfenced == RemoveAll(RemoveAll(sql_query, Fence \o "sql"), Fence)
        ended == EnsureSemicolon(Strip(FixStPoint(unfenced)))
    IN  IF AnyIn(dangerous_keywords, Upper(ended)) THEN SafeQuery ELSE ended

\* lines 161-172
QueryType(sql_lower) ==
    CASE Contains(sql_lower, "order by pressure_dbar") -> "profile"
      [] ~Contains(sql_lower, "order by pressure_dbar")
            /\ Contains(sql_lower, "order by date_time") -> "time_series"
      [] ~Contains(sql_lower, "order by pressure_dbar")
            /\ ~Contains(sql_lower, "order by date_time")
            /\ (Contains(sql_lower, "st_dwithin") \/ Contains(sql_lower, "st_distance"))
            -> "spatial"
      [] ~Contains(sql_lower, "order by pressure_dbar")
            /\ ~Contains(sql_lower, "order by date_time")
            /\ ~(Contains(sql_lower, "st_dwithin") \/ Contains(sql_lower, "st_distance"))
            /\ Contains(sql_lower, "float_id") -> "float_specific"
      [] OTHER -> "general"

\* lines 175-184
Parameters(user_lower) ==
    LET found == (IF Contains(user_lower, "temperature") THEN <<"temperature">> ELSE <<>>)
              \o (IF Contains(user_lower, "salinity") THEN <<"salinity">> ELSE <<>>)
              \o (IF Contains(user_lower, "pressure") \/ Contains(user_lower, "depth")
                  THEN <<"pressure">> ELSE <<>>)
    IN  IF found = <<>> THEN <<"temperature">> ELSE found

locations == <<"mumbai", "chennai", "kolkata", "delhi", "bangalore", "goa", "kerala">>
regions == <<"arabian sea", "bay of bengal", "indian ocean">>

\* for name in names: if name in text: location = name.title(); break
FirstMatch(names, text, otherwise) ==
    IF \E i \in 1..Len(names) : Contains(text, names[i])
    THEN Title(names[CHOOSE i \in 1..Len(names) :
                        /\ Contains(text, names[i])
                        /\ \A j \in 1..(i - 1) : ~Contains(text, names[j])])
    ELSE otherwise

\* lines 186-198: the loop over the regions runs after the loop over the cities
\* and assigns the same field
Location(user_lower) == FirstMatch(regions, user_lower, FirstMatch(locations, user_lower, None))

\* lines 200-206
DepthRange(user_lower) ==
    CASE Contains(user_lower, "surface") -> "surface"
      [] ~Contains(user_lower, "surface") /\ Contains(user_lower, "deep") -> "deep"
      [] ~Contains(user_lower, "surface") /\ ~Contains(user_lower, "deep")
            /\ Contains(user_lower, "profile") -> "profile"
      [] OTHER -> None

\* lines 147-208
extract_query_metadata(sql_query, user_query) ==
    LET sql_lower == Lower(sql_query)
        user_lower == Lower(user_query)
    IN  [query_type |-> QueryType(sql_lower),
         location |-> Location(user_lower),
         parameters |-> Parameters(user_lower),
         depth_range |-> DepthRange(user_lower),
         time_constraint |-> FALSE,
         spatial_query |-> QueryType(sql_lower) = "spatial"]

FallbackQuery == "SELECT * FROM argo_floats ORDER BY date_time DESC LIMIT 1000;"

\* what the chat-completion call of the language model does: it raises, or it
\* returns the text `content`
LlmRaises == [raises |-> TRUE, content |-> "", error |-> "Connection error."]
LlmReply(text) == [raises |-> FALSE, content |-> text, error |-> ""]

\* lines 85-115
generate_sql_query(user_query, llm) ==
    IF llm.raises
    THEN [sql_query |-> FallbackQuery,
          metadata |-> [query_type |-> "fallback",
                        location |-> None,
                        parameters |-> <<"temperature", "salinity">>,
                        error |-> llm.error]]
    ELSE LET sql_query == clean_sql_query(Strip(llm.content))
         IN  [sql_query |-> sql_query,
              metadata |-> extract_query_metadata(sql_query, user_query)]

-----------------------------------------------------------------------------
(* LightweightPlotGenerator.extract_location *)

\* lines 247-259, in dict order
gazetteer ==
    << [location |-> "mumbai", keywords |-> {"mumbai", "bombay"}],
       [location |-> "chennai", keywords |-> {"chennai", "madras"}],
       [location |-> "kolkata", keywords |-> {"kolkata", "calcutta"}],
       [location |-> "delhi", keywords |-> {"delhi", "new delhi"}],
       [location |-> "bangalore", keywords |-> {"bangalore", "bengaluru"}],
       [location |-> "goa", keywords |-> {"goa"}],
       [location |-> "kerala", keywords |-> {"kerala", "kochi", "cochin"}],
       [location |-> "gujarat", keywords |-> {"gujarat", "ahmedabad"}],
       [location |-> "arabian sea", keywords |-> {"arabian sea", "arabian"}],
       [location |-> "bay of bengal", keywords |-> {"bay of bengal", "bengal bay"}],
       [location |-> "indian ocean", keywords |-> {"indian ocean"}] >>

\* lines 261-265
extract_location(prompt) ==
    LET prompt_lower == Lower(prompt)
        hit(i) == AnyIn(gazetteer[i].keywords, prompt_lower)
    IN  IF \E i \in 1..Len(gazetteer) : hit(i)
        THEN Title(gazetteer[CHOOSE i \in 1..Len(gazetteer) :
                        hit(i) /\ \A j \in 1..(i - 1) : ~hit(j)].location)
        ELSE None

-----------------------------------------------------------------------------
(* Direct calls of the query-intent extractor *)

UserTexts == {"",
              "hello",
              "show me the water profile of mumbai",
              "Temperature near Bombay",
              "salinity off Chennai in the Bay of Bengal",
              "surface temperature in the Arabian Sea",
              "deep pressure data kolkata delhi",
              "indian ocean depth",
              "goa and mumbai",
              "x'; DROP TABLE argo_floats; --"}

\* texts the language model returns when asked for a query
SqlReplies == {"SELECT * FROM argo_floats WHERE float_id = '5905529' ORDER BY pressure_dbar ASC;",
               "select * from argo_floats order by pressure_dbar desc limit 10",
               Fence \o "sql\nSELECT * FROM argo_floats WHERE ST_DWithin(geometry, ST_Point(72.88, 19.07), 100000) LIMIT 1000\n" \o Fence,
               "SELECT * FROM argo_floats WHERE ST_DWithin(geometry, ST_Point(72.88, 19.07), 100000) ORDER BY date_time DESC LIMIT 1000;",
               "  SELECT temperature_celsius FROM argo_floats WHERE float_id = 5905529 ",
               "SELECT * FROM argo_floats WHERE pressure_dbar < 50 LIMIT 2000;",
               "DROP TABLE argo_floats;",
               "SELECT * FROM argo_floats; delete from argo_floats",
               ""}

InitExtract ==
    /\ \/ call \in [op : {"generate_sql_query"}, user_query : UserTexts,
                    llm : {LlmRaises} \cup {LlmReply(t) : t \in SqlReplies}]
       \/ call \in [op : {"extract_location"}, user_query : UserTexts]
    /\ ret = NoValue
    /\ IdlePipeline

CallGenerateSqlQuery ==
    /\ call # NoValue /\ call.op = "generate_sql_query"
    /\ ret = NoValue
    /\ ret' = [value |-> generate_sql_query(call.user_query, call.llm)]
    /\ UNCHANGED <<call, pipelineVars>>

CallExtractLocation ==
    /\ call # NoValue /\ call.op = "extract_location"
    /\ ret = NoValue
    /\ ret' = [value |-> extract_location(call.user_query)]
    /\ UNCHANGED <<call, pipelineVars>>

NextExtract == CallGenerateSqlQuery \/ CallExtractLocation

SpecExtract == InitExtract /\ [][NextExtract]_vars

-----------------------------------------------------------------------------
(* LightweightPlotGenerator: retrieval *)

n_records == 500

\* lines 367-393: the draws of the seeded generator are replaced by the centre
\* of their distribution; timestamps are six hours apart from 2024-01-01
create_mock_data ==
    [nrows |-> n_records,
     cols |-> [name \in {column_mapping(c) : c \in DbColumns} |->
                [i \in 1..n_records |->
                    CASE name = "Float_ID" -> Num(5905529 + (i % 3))
                      [] name = "Latitude" -> Num(19)
                      [] name = "Longitude" -> Num(72)
                      [] name = "Pressure_dbar" -> Num(200)
                      [] name = "Temperature_Celsius" -> Num(24)
                      [] name = "Salinity_PSU" -> Num(34)
                      [] name = "Date_Time" -> Date((6 * (i - 1)) \div 24)]]]

\* lines 340-343
StandardizeColumns(df) ==
    LET renamed == Rename(df)
    IN  IF HasCol(renamed, "Date_Time")
        THEN [renamed EXCEPT !.cols["Date_Time"] = to_datetime(@)]
        ELSE renamed

\* what the database does with the query: it raises (no connection, EXPLAIN
\* rejects the query, ...) or it returns the table `table`
DbRaises == [raises |-> TRUE, table |-> MakeTable(0, [c \in DbColumns |-> "missing"])]
DbReturns(table) == [raises |-> FALSE, table |-> table]

\* a retrieval that hands on the empty table of the failed query
fetch_without_mock(sql_query, db) == StandardizeColumns(db.table)

\* lines 297-365
fetch_data_from_db(sql_query, db) ==
    IF db.raises THEN create_mock_data ELSE StandardizeColumns(db.table)

\* a test for emptiness that no table passes
EmptyNever(df) == FALSE

\* DataFrame.empty
Empty(df) == df.nrows = 0 \/ DOMAIN df.cols = {}

-----------------------------------------------------------------------------
(* LightweightPlotGenerator: rendering *)

HasEither(df, name) == HasCol(df, name) \/ HasCol(df, Lower(name))

\* the columns a chart reads; a missing one makes pandas or plotly raise
ColumnsMissing(plot_type, df) ==
    CASE plot_type = "profile" ->
            ~HasEither(df, "Pressure_dbar") \/ ~HasEither(df, "Temperature_Celsius")
      [] plot_type = "time_series" -> ~HasCol(df, "Temperature_Celsius")
      [] plot_type = "map" ->
            {"Latitude", "Longitude", "Temperature_Celsius", "Float_ID",
             "Salinity_PSU", "Pressure_dbar"} \ DOMAIN df.cols # {}
      [] plot_type = "ts_diagram" ->
            {"Salinity_PSU", "Temperature_Celsius", "Pressure_dbar", "Float_ID",
             "Date_Time"} \ DOMAIN df.cols # {}
      [] OTHER ->
            \/ \E c \in {"Longitude", "Latitude", "Pressure_dbar",
                         "Temperature_Celsius"} : ~HasEither(df, c)
            \/ (~HasCol(df, "Salinity_PSU") /\ HasCol(df, "salinity_psu"))

PlotFile(name) == "plots/" \o name \o ".png"

\* the record a plot_* method returns when it has drawn its chart
PlotRecord(plot_type, df) ==
    CASE plot_type = "profile" ->
            [plot_type |-> "profile",
             saved_files |-> <<PlotFile("temperature_profile")>> \o
                 (IF HasEither(df, "Salinity_PSU")
                  THEN <<PlotFile("salinity_profile")>> ELSE <<>>)]
      [] plot_type = "time_series" -> [plot_type |-> "time_series"]
      [] plot_type = "map" ->
            [plot_type |-> "map", saved_file |-> PlotFile("temperature_map")]
      [] plot_type = "ts_diagram" ->
            [plot_type |-> "ts_diagram", saved_file |-> PlotFile("ts_diagram")]
      [] OTHER ->
            [plot_type |-> "3d_scatter", saved_file |-> PlotFile("3d_ocean_scatter")]

\* plot_profile .. plot_3d_scatter (lines 404-714); io is "raise" when plotly
\* or the image writer fails.  The outcome is "ok" with the record, "error"
\* (an {"error": ...} record) or "raise".
Render(plot_type, df, io) ==
    IF Empty(df) \/ (plot_type = "time_series" /\ ~HasCol(df, "Date_Time"))
    THEN [outcome |-> "error", plot |-> [plot_type |-> plot_type]]
    ELSE IF ColumnsMissing(plot_type, df) \/ io = "raise"
         THEN [outcome |-> "raise", plot |-> [plot_type |-> plot_type]]
         ELSE [outcome |-> "ok", plot |-> PlotRecord(plot_type, df)]

\* lines 759-762
SavedFilesOf(plot) ==
    IF "saved_file" \in DOMAIN plot THEN <<plot.saved_file>>
    ELSE IF "saved_files" \in DOMAIN plot THEN plot.saved_files
    ELSE <<>>

\* lines 739-768: the loop over the chosen plots; a failed render is skipped
RECURSIVE RenderLoop(_, _, _, _)
RenderLoop(todo, df, io, acc) ==
    IF todo = <<>> THEN acc
    ELSE LET r == Render(Head(todo), df, io[Head(todo)])
         IN  RenderLoop(Tail(todo), df, io,
                IF r.outcome = "ok"
                THEN [plot_results |-> Append(acc.plot_results, r.plot),
                      all_saved_files |-> acc.all_saved_files \o SavedFilesOf(r.plot)]
                ELSE acc)

\* lines 771-777: the default chart, rendered outside any try block
EnsureOnePlot(acc, df, io_default) ==
    IF acc.plot_results = <<>>
    THEN LET r == Render("3d_scatter", df, io_default)
         IN  [raises |-> r.outcome = "raise",
              acc |-> IF r.outcome = "ok"
                      THEN [plot_results |-> <<r.plot>>,
                            all_saved_files |-> SavedFilesOf(r.plot)]
                      ELSE acc]
    ELSE [raises |-> FALSE, acc |-> acc]

\* lines 716-789; the result is [raises, value]
generate_plots_from_data(df, prompt, threshold, p1, classifier_raises, io, io_default) ==
    IF Empty(df)
    THEN [raises |-> FALSE,
          value |-> [success |-> FALSE, error |-> "No data available for plotting",
                     plots |-> <<>>]]
    ELSE LET cls == classify_prompt(prompt, threshold, p1, classifier_raises)
             one == EnsureOnePlot(
                        RenderLoop(cls.chosen, df, io,
                                   [plot_results |-> <<>>, all_saved_files |-> <<>>]),
                        df, io_default)
         IN  [raises |-> one.raises,
              value |-> [success |-> TRUE,
                         data_shape |-> Shape(df),
                         plots |-> one.acc.plot_results,
                         classification_scores |-> cls.scores,
                         chosen_plots |-> cls.chosen,
                         total_plots_generated |-> Len(one.acc.plot_results),
                         all_saved_files |-> one.acc.all_saved_files]]

-----------------------------------------------------------------------------
(* FloatChatBot and the template narratives *)

\* lines 113-117
get_fallback_response(user_query, error) ==
    "Ocean data analysis temporarily unavailable. Please check your API configuration. Error: "
        \o error

\* lines 88-111: [text, history] with history the new conversation_history
generate_response(user_query, sql_metadata, data_summary, llm, history) ==
    IF llm.raises
    THEN [text |-> get_fallback_response(user_query, llm.error), history |-> history]
    ELSE [text |-> Strip(llm.content),
          history |-> Append(history, [user |-> user_query,
                                       assistant |-> Strip(llm.content),
                                       metadata |-> sql_metadata])]

RECURSIVE IntToStr(_)
IntToStr(n) == IF n < 10 THEN CharAt(Digits, n + 1)
               ELSE IntToStr(n \div 10) \o CharAt(Digits, (n % 10) + 1)

\* f"{n:,}"
RECURSIVE Thousands(_)
Thousands(n) ==
    IF n < 1000 THEN IntToStr(n)
    ELSE Thousands(n \div 1000) \o "," \o TwoDigits((n % 1000) \div 10)
            \o CharAt(Digits, (n % 10) + 1)

\* lightweight_pipeline.py lines 116-154 (the templates are shortened)
generate_fallback_response(user_query, data_summary) ==
    LET query_lower == Lower(user_query)
        count == Thousands(data_summary.total_records)
    IN  IF Contains(query_lower, "profile")
        THEN "Great question! The water profile shows the vertical structure of ocean properties. From the "
                \o count \o " measurements I found: ..."
        ELSE IF Contains(query_lower, "mumbai")
        THEN "Excellent choice! Mumbai's ocean data from the Arabian Sea shows fascinating patterns. From "
                \o count \o " measurements in this region: ..."
        ELSE "Here's your ocean data analysis! I've processed "
                \o count \o " measurements to show you the patterns in this region. ..."

-----------------------------------------------------------------------------
(* LightweightFloatChatPipeline: the three kinds of response *)

\* lines 224-253
handle_no_data_response(user_query, sql_metadata) ==
    [success |-> FALSE,
     user_query |-> user_query,
     chat_response |-> "I understand you're looking for ocean data! While I couldn't find specific measurements for \""
                          \o user_query \o "\", I can help you explore our ocean database. ...",
     plots |-> <<>>,
     data_summary |-> [total_records |-> 0],
     sql_metadata |-> sql_metadata,
     suggestions |-> <<"Show available data regions",
                       "Temperature data near major cities",
                       "Recent ocean measurements">>]

\* lines 255-281
handle_error_response(user_query, error) ==
    [success |-> FALSE,
     user_query |-> user_query,
     chat_response |-> "I encountered a technical issue while processing: \""
                          \o user_query \o "\" ... Suggestion: Try rephrasing your query or use simpler terms ...",
     plots |-> <<>>,
     error |-> error,
     suggestions |-> <<"Use simpler query terms",
                       "Try location-based queries",
                       "Ask for specific plot types">>]

RECURSIVE CollectSaved(_)
CollectSaved(plots) ==
    IF plots = <<>> THEN <<>> ELSE SavedFilesOf(Head(plots)) \o CollectSaved(Tail(plots))

\* lines 287-300
SavedFiles(plot_result) ==
    IF plot_result.success
    THEN IF "all_saved_files" \in DOMAIN plot_result THEN plot_result.all_saved_files
         ELSE IF "plots" \in DOMAIN plot_result THEN CollectSaved(plot_result.plots)
         ELSE <<>>
    ELSE <<>>

\* lines 283-326
package_complete_response(user_query, sql_query, sql_metadata, data_summary, plot_result, chat_response, processing_time, now) ==
    [success |-> TRUE,
     user_query |-> user_query,
     chat_response |-> chat_response,
     plots |-> IF plot_result.success THEN plot_result.plots ELSE <<>>,
     saved_files |-> SavedFiles(plot_result),
     plot_metadata |->
         [classification_scores |->
              IF "classification_scores" \in DOMAIN plot_result
              THEN plot_result.classification_scores ELSE <<>>,
          chosen_plots |->
              IF "chosen_plots" \in DOMAIN plot_result
              THEN plot_result.chosen_plots ELSE <<>>],
     data_summary |-> data_summary,
     sql_metadata |-> sql_metadata,
     technical_details |-> [sql_query |-> sql_query,
                            processing_time_seconds |-> processing_time,
                            data_shape |-> data_summary.data_shape,
                            system_type |-> "lightweight (scikit-learn)"],
     suggestions |-> <<"How does this compare to other regions?",
                       "Can you show different visualizations?",
                       "What drives these ocean patterns?">>,
     timestamp |-> now]

-----------------------------------------------------------------------------
(* LightweightFloatChatPipeline.process_user_query, one stage per step *)

\* a str may hold an unpaired surrogate code point (json.loads of "\ud800"
\* gives one); this marker stands for it in the texts of the model
LoneSurrogate == "<U+D800>"

\* print(text): sys.stdout encodes the text, and no codec encodes an unpaired
\* surrogate (UnicodeEncodeError: surrogates not allowed)
PrintRaises(text) == Contains(text, LoneSurrogate)

Queries == {"",
            "hello",
            "show me the water profile of mumbai",
            "Temperature near Bombay",
            "surface temperature in the Arabian Sea",
            "x'; DROP TABLE argo_floats; --",
            "salinity near goa " \o LoneSurrogate}

SqlLlmOutcomes ==
    {LlmRaises,
     LlmReply("SELECT * FROM argo_floats WHERE float_id = '5905529' ORDER BY pressure_dbar ASC;"),
     LlmReply(Fence \o "sql\nSELECT * FROM argo_floats WHERE ST_DWithin(geometry, ST_Point(72.88, 19.07), 100000) LIMIT 1000\n" \o Fence),
     LlmReply("DROP TABLE argo_floats;")}

NarrationLlmOutcomes ==
    {LlmRaises,
     LlmReply("The water column is warm at the surface and strongly stratified. "),
     LlmReply(" \n")}

DbOutcomes ==
    LET all == [c \in DbColumns |-> "values"]
    IN  {DbRaises,
         DbReturns(MakeTable(0, all)),
         DbReturns(MakeTable(MaxRows, all)),
         DbReturns(MakeTable(MaxRows, [all EXCEPT !["temperature_celsius"] = "null",
                                                  !["salinity_psu"] = "partial",
                                                  !["date_time"] = "null"])),
         DbReturns(MakeTable(MaxRows, [c \in DbColumns |->
                     IF c = "temperature_celsius" THEN "values" ELSE "missing"]))}

\* which renders fail for a reason outside the table: none, all, or one
RenderFaults ==
    {[c \in Categories |-> "ok"], [c \in Categories |-> "raise"]}
        \cup {[c \in Categories |-> IF c = bad THEN "raise" ELSE "ok"] : bad \in Categories}

\* the classifier outputs that differ for the first label
PipelineProba == {p \in ProbaInputs : p[2] = 0}

NoRequest ==
    [user_query |-> "", start_time |-> 0, sql_query |-> "", sql_metadata |-> NoValue,
     df |-> NoValue, plot_result |-> NoValue, data_summary |-> NoValue,
     chat_response |-> ""]

Init ==
    /\ call = NoValue
    /\ ret = NoValue
    /\ available \in BOOLEAN
    /\ pc = "idle"
    /\ req = NoRequest
    /\ trace = <<>>
    /\ faults = {}
    /\ clock = 0
    /\ response = NoValue
    /\ conversation_history = <<>>

\* lines 43-45: the clock is read and the query is printed BEFORE the try
\* block of line 47 is entered, so an exception of the print leaves the call
Begin ==
    /\ pc = "idle"
    /\ \E user_query \in Queries :
          /\ req' = [NoRequest EXCEPT !.user_query = user_query, !.start_time = clock]
          /\ pc' = IF PrintRaises(user_query) THEN "raised" ELSE "sql"
    /\ UNCHANGED <<call, ret, available, trace, faults, clock, response,
                   conversation_history>>

\* a handler that builds the error response without ending the call
ExceptWithoutReturn(error) ==
    /\ response' = handle_error_response(req.user_query, error)
    /\ pc' = pc

\* lines 112-114: the handler of the outer try block
Except(error) ==
    /\ response' = handle_error_response(req.user_query, error)
    /\ pc' = "done"

\* the stage is entered, `found` went wrong in it, and an exception that
\* escapes it reaches the handler of the outer try block
Enter(stage, found, escapes) ==
    /\ trace' = Append(trace, stage) \o (IF escapes THEN <<"except">> ELSE <<>>)
    /\ faults' = faults \cup found \cup (IF escapes THEN {"internal"} ELSE {})
    /\ clock' = clock + 1

\* lines 48-56; escapes: an exception leaves generate_sql_query
StageIntent ==
    /\ pc = "sql"
    /\ IF available
       THEN \E llm \in SqlLlmOutcomes, escapes \in BOOLEAN :
               /\ Enter("intent",
                        IF llm.raises /\ ~escapes THEN {"query_generation_failed"} ELSE {},
                        escapes)
               /\ IF escapes
                  THEN Except("query generation failed") /\ UNCHANGED req
                  ELSE LET g == generate_sql_query(req.user_query, llm)
                       IN  /\ req' = [req EXCEPT !.sql_query = g.sql_query,
                                                 !.sql_metadata = g.metadata]
                           /\ pc' = "fetch"
                           /\ UNCHANGED response
       ELSE /\ Enter("intent", {"query_generation_unavailable"}, FALSE)
            /\ req' = [req EXCEPT !.sql_query = "SELECT * FROM argo_floats LIMIT 1000;",
                                  !.sql_metadata = [query_type |-> "fallback",
                                                    location |-> "Mumbai"]]
            /\ pc' = "fetch"
            /\ UNCHANGED response
    /\ UNCHANGED <<call, ret, available, conversation_history>>

\* lines 58-65; escapes: an exception leaves fetch_data_from_db
StageRetrieval ==
    /\ pc = "fetch"
    /\ \E db \in DbOutcomes, escapes \in BOOLEAN :
          /\ Enter("retrieval",
                   IF escapes THEN {}
                   ELSE IF db.raises THEN {"retrieval_failed"}
                   ELSE IF db.table.nrows = 0 THEN {"empty_result"} ELSE {},
                   escapes)
          /\ IF escapes
             THEN Except("retrieval failed") /\ UNCHANGED req
             ELSE LET df == fetch_data_from_db(req.sql_query, db)
                  IN  IF Empty(df)
                      THEN /\ response' = handle_no_data_response(req.user_query,
                                                                  req.sql_metadata)
                           /\ pc' = "done"
                           /\ req' = [req EXCEPT !.df = df]
                      ELSE /\ req' = [req EXCEPT !.df = df]
                           /\ pc' = "plots"
                           /\ UNCHANGED response
    /\ UNCHANGED <<call, ret, available, conversation_history>>

\* a stage result that keeps a chart although the generation raised
PlotFailureWithChart(error) ==
    [success |-> FALSE, error |-> error, plots |-> <<[plot_type |-> "3d_scatter"]>>,
     classification_scores |-> <<>>, chosen_plots |-> <<>>]

\* lines 73-79
PlotFailure(error) ==
    [success |-> FALSE, error |-> error, plots |-> <<>>,
     classification_scores |-> <<>>, chosen_plots |-> <<>>]

\* lines 67-79
StageVisualization ==
    /\ pc = "plots"
    /\ \E p1 \in PipelineProba, classifier_raises \in BOOLEAN,
          io \in RenderFaults, io_default \in {"ok", "raise"} :
          LET r == generate_plots_from_data(req.df, req.user_query, DefaultThreshold,
                                            p1, classifier_raises, io, io_default)
          IN  /\ req' = [req EXCEPT !.plot_result =
                           IF r.raises THEN PlotFailure("plot generation failed")
                           ELSE r.value]
              /\ Enter("visualization",
                       IF r.raises \/ Len(r.value.plots) < Len(r.value.chosen_plots)
                       THEN {"render_failed"} ELSE {},
                       FALSE)
    /\ pc' = "summary"
    /\ UNCHANGED <<call, ret, available, response, conversation_history>>

\* lines 81-91; escapes: an exception leaves the construction of the summary
StageSummarization ==
    /\ pc = "summary"
    /\ \E escapes \in BOOLEAN :
          /\ Enter("summarization", {}, escapes)
          /\ IF escapes
             THEN Except("summary failed") /\ UNCHANGED req
             ELSE /\ req' = [req EXCEPT !.data_summary = build_data_summary(req.df)]
                  /\ pc' = "narrate"
                  /\ UNCHANGED response
    /\ UNCHANGED <<call, ret, available, conversation_history>>

\* lines 93-96; escapes: an exception leaves the narration call
StageNarration ==
    /\ pc = "narrate"
    /\ IF available
       THEN \E llm \in NarrationLlmOutcomes, escapes \in BOOLEAN :
               /\ Enter("narration",
                        IF escapes THEN {}
                        ELSE IF llm.raises THEN {"narration_failed"} ELSE {},
                        escapes)
               /\ IF escapes
                  THEN /\ Except("narration failed")
                       /\ UNCHANGED <<req, conversation_history>>
                  ELSE LET g == generate_response(req.user_query, req.sql_metadata,
                                                  req.data_summary, llm,
                                                  conversation_history)
                       IN  /\ req' = [req EXCEPT !.chat_response = g.text]
                           /\ conversation_history' = g.history
                           /\ pc' = "package"
                           /\ UNCHANGED response
       ELSE /\ Enter("narration", {"narration_unavailable"}, FALSE)
            /\ req' = [req EXCEPT !.chat_response =
                          generate_fallback_response(req.user_query, req.data_summary)]
            /\ pc' = "package"
            /\ UNCHANGED <<response, conversation_history>>
    /\ UNCHANGED <<call, ret, available>>

\* lines 98-110; escapes: an exception leaves _package_complete_response
Package ==
    /\ pc = "package"
    /\ \E escapes \in BOOLEAN :
          /\ trace' = Append(trace, "package") \o (IF escapes THEN <<"except">> ELSE <<>>)
          /\ faults' = faults \cup (IF escapes THEN {"internal"} ELSE {})
          /\ IF escapes
             THEN Except("packaging failed")
             ELSE /\ response' = package_complete_response(
                                    req.user_query, req.sql_query, req.sql_metadata,
                                    req.data_summary, req.plot_result,
                                    req.chat_response, clock - req.start_time, clock)
                  /\ pc' = "done"
    /\ UNCHANGED <<call, ret, available, req, clock, conversation_history>>

-----------------------------------------------------------------------------
(* api_server: POST /api/chat *)

\* api_server.py lines 84-123: the reply to a message the pipeline was called
\* with; raised: process_user_query let an exception out
chat(user_message, result, raised, processing_time, now, session_id) ==
    IF raised
    THEN [status |-> 500,
          body |-> [error |-> "Failed to process query: 'utf-8' codec can't encode character: surrogates not allowed",
                    fallback_response |-> "I encountered an issue processing your ocean data query. Our systems are actively monitoring ocean conditions, but there was a temporary problem. Please try rephrasing your question or try again in a moment."]]
    ELSE LET response_text == IF "chat_response" \in DOMAIN result
                              THEN result.chat_response ELSE "No response generated"
             plots_info == IF "plots" \in DOMAIN result THEN result.plots ELSE <<>>
             data_summary == IF "data_summary" \in DOMAIN result
                             THEN result.data_summary ELSE <<>>
         IN  [status |-> 200,
              body |-> [success |-> TRUE,
                        message |-> response_text,
                        plots |-> plots_info,
                        data_summary |->
                            [records_analyzed |-> IF "records" \in DOMAIN data_summary
                                                  THEN data_summary.records ELSE 0,
                             processing_time |-> processing_time,
                             timestamp |-> now,
                             session_id |-> session_id],
                        metadata |-> [query |-> user_message,
                                      system |-> "lightweight_pipeline",
                                      ml_backend |-> "scikit-learn"]]]

\* str(uuid.uuid4())[:8]
SessionIds == {"1b9d6bcd", "f47ac10b"}

\* api_server.py lines 66-70 and 84-123: a blank message is answered 400
\* before the pipeline is called, so the endpoint replies to the calls made
\* with a non-blank message
ApiChat ==
    /\ pc \in {"done", "raised"}
    /\ Strip(req.user_query) # ""
    /\ ret = NoValue
    /\ \E session_id \in SessionIds :
          ret' = [value |-> chat(req.user_query, response, pc = "raised",
                                 clock - req.start_time, clock, session_id)]
    /\ UNCHANGED <<call, available, pc, req, trace, faults, clock, response,
                   conversation_history>>

Next ==
    \/ Begin
    \/ StageIntent
    \/ StageRetrieval
    \/ StageVisualization
    \/ StageSummarization
    \/ StageNarration
    \/ Package
    \/ ApiChat

Spec == Init /\ [][Next]_vars

-----------------------------------------------------------------------------
(* Properties of classify_prompt, under SpecClassify *)

\* C2: for every prompt and every threshold the selection classify_prompt
\* returns has between 1 and 4 labels, no label twice, and only labels of the
\* fixed chart-type set
C2_SelectionWellFormed ==
    (ret # NoValue) =>
        LET chosen == ret.value.chosen
        IN  /\ Len(chosen) >= 1 /\ Len(chosen) <= 4
            /\ \A i, j \in 1..Len(chosen) : chosen[i] = chosen[j] => i = j
            /\ \A i \in 1..Len(chosen) : chosen[i] \in ChartTypes

\* all five scored labels reach the threshold and the selection was cut to four
C2_Witness ==
    /\ ret # NoValue /\ ~call.raises
    /\ \A label \in Categories :
          ApplyFloor(BlendedScores(call.prompt, call.proba))[label] >= call.threshold
    /\ Len(ret.value.chosen) = 4

\* C5: for the empty prompt classify_prompt applies the floor rule: the
\* selection is exactly {3d_scatter, profile, map} and the returned scores of
\* these labels are 0.8, 0.7 and 0.6
C5_EmptyPromptFloor ==
    (ret # NoValue /\ call.prompt = "" /\ ~call.raises) =>
        LET chosen == ret.value.chosen
            scores == ret.value.scores
        IN  /\ Len(chosen) = 3
            /\ {chosen[i] : i \in 1..Len(chosen)} = {"3d_scatter", "profile", "map"}
            /\ scores["3d_scatter"] = 800
            /\ scores["profile"] = 700
            /\ scores["map"] = 600

\* C6: for "show me the water profile of mumbai" at the default threshold the
\* selection holds profile with a returned score of at least 0.9, and
\* ts_diagram or 3d_scatter as well
C6_ProfileScenario ==
    (/\ ret # NoValue /\ ~call.raises
     /\ call.prompt = "show me the water profile of mumbai"
     /\ call.threshold = DefaultThreshold) =>
        /\ InSeq("profile", ret.value.chosen)
        /\ ret.value.scores["profile"] >= 900
        /\ InSeq("ts_diagram", ret.value.chosen) \/ InSeq("3d_scatter", ret.value.chosen)

-----------------------------------------------------------------------------
(* Properties of the data summary, under SpecSummary *)

\* C7: the summary is fully populated and each of the five ranges equals its
\* fallback literal whenever its source column is missing, of the wrong type
\* or entirely null
C7_FallbackRanges ==
    (ret # NoValue) =>
        LET df == call.df
            unusable(name) == \/ ~HasCol(df, name)
                              \/ AllNull(df.cols[name])
                              \/ FloatRaises(df.cols[name])
            undated == \/ ~HasCol(df, "Date_Time")
                       \/ AllNull(df.cols["Date_Time"])
                       \/ KindsOf(dropna(df.cols["Date_Time"])) # {"date"}
            summary == ret.value
        IN  /\ DOMAIN summary = {"data_shape", "total_records", "date_range",
                                 "geographic_bounds", "depth_range", "temp_range",
                                 "salinity_range"}
            /\ undated => summary.date_range = FallbackDateRange
            /\ (unusable("Latitude") \/ unusable("Longitude"))
                  => summary.geographic_bounds = FallbackGeoBounds
            /\ unusable("pressure_dbar") => summary.depth_range = FallbackDepthRange
            /\ unusable("temperature_celsius") => summary.temp_range = FallbackTempRange
            /\ unusable("salinity_psu") => summary.salinity_range = FallbackSalinityRange

-----------------------------------------------------------------------------
(* Properties of the query-intent extractor, under SpecExtract *)

\* C8: the location of the query intent is the title-cased canonical name of
\* the first gazetteer entry found in the user text, cities before regions and
\* alternate names mapped: "bombay" gives "Mumbai", a city together with a
\* region gives the city, no gazetteer name gives no location
C8_LocationOfIntent ==
    (ret # NoValue /\ call.op = "generate_sql_query" /\ ~call.llm.raises) =>
        LET text == Lower(call.user_query)
            location == ret.value.metadata.location
            hit(i) == AnyIn(gazetteer[i].keywords, text)
            cities == {i \in 1..Len(gazetteer) :
                          InSeq(gazetteer[i].location, locations) /\ hit(i)}
            oceans == {i \in 1..Len(gazetteer) :
                          InSeq(gazetteer[i].location, regions) /\ hit(i)}
        IN  /\ Contains(text, "bombay") => location = "Mumbai"
            /\ (cities # {} /\ oceans # {})
                  => location = Title(gazetteer[First(cities)].location)
            /\ (\A i \in 1..Len(gazetteer) : ~hit(i)) => location = None

-----------------------------------------------------------------------------
(* Properties of process_user_query, under Spec *)

\* C1: process_user_query lets no exception escape, whatever the user text and
\* whichever stage fails: the call returns a response, and an exception no
\* stage handles gives the error response, with success false and a
\* remediation message
C1_NoEscape ==
    /\ pc # "raised"
    /\ (pc = "done") => (response # NoValue /\ "success" \in DOMAIN response)
    /\ (pc = "done" /\ InSeq("except", trace)) =>
          /\ response.success = FALSE
          /\ Contains(response.chat_response, "Try rephrasing your query")

\* C3: when retrieval returns an empty table the request ends with success
\* false, a non-empty list of suggestions and an empty list of chart results,
\* and neither visualization nor narration has run for it
C3_EmptyRetrieval ==
    (pc # "idle" /\ req.df # NoValue /\ req.df.nrows = 0) =>
        /\ pc = "done"
        /\ response.success = FALSE
        /\ "suggestions" \in DOMAIN response /\ Len(response.suggestions) > 0
        /\ response.plots = <<>>
        /\ ~InSeq("visualization", trace)
        /\ ~InSeq("narration", trace)

\* the database answered the query with a table of no rows
C3_Witness ==
    /\ pc = "done"
    /\ req.df # NoValue /\ req.df.nrows = 0
    /\ "empty_result" \in faults
    /\ trace = <<"intent", "retrieval">>
    /\ response.success = FALSE

\* C9 as stated: a request whose only faults are an unavailable or failing
\* query generator, a failing retrieval, failing renders and an unavailable or
\* failing narrator ends with success true and a non-empty narrative
C9_FaultsRecovered ==
    (/\ pc = "done"
     /\ faults \subseteq {"query_generation_unavailable", "query_generation_failed",
                          "retrieval_failed", "render_failed",
                          "narration_unavailable", "narration_failed"}) =>
        /\ response.success = TRUE
        /\ response.chat_response # ""

\* C9 as the code has it: such a request ends with success true, and its
\* narrative is empty only if it is the narrator's own reply that was blank
C9_FaultsRecoveredUnlessBlankReply ==
    (/\ pc = "done"
     /\ faults \subseteq {"query_generation_unavailable", "query_generation_failed",
                          "retrieval_failed", "render_failed",
                          "narration_unavailable", "narration_failed"}) =>
        /\ response.success = TRUE
        /\ \/ response.chat_response # ""
           \/ /\ conversation_history # <<>>
              /\ conversation_history[Len(conversation_history)].assistant = ""

\* query generation, retrieval, every render and narration failed in one request
C9_Witness ==
    /\ pc = "done"
    /\ faults = {"query_generation_failed", "retrieval_failed", "render_failed",
                 "narration_failed"}
    /\ response.success = TRUE
    /\ response.plots = <<>>
    /\ StartsWith(response.chat_response, "Ocean data analysis temporarily unavailable")

\* C10: every response, on the complete, no-data and error paths alike, carries
\* a success flag, the narrative, the chart-result list, a data summary, the
\* query intent and a processing duration
C10_WellFormedResponse ==
    (pc = "done") =>
        /\ {"success", "chat_response", "plots", "data_summary", "sql_metadata",
            "technical_details"} \subseteq DOMAIN response
        /\ "processing_time_seconds" \in DOMAIN response.technical_details

-----------------------------------------------------------------------------
(* More properties of classify_prompt, under SpecClassify *)

\* C11: when a step of classify_prompt raises, the call still returns: the
\* selection is [3d_scatter, profile, map] and the scores are fixed
\* placeholders, the same for every prompt and threshold
C11_FailureFallback ==
    (ret # NoValue /\ call.raises) =>
        /\ ret.value.chosen = <<"3d_scatter", "profile", "map">>
        /\ ret.value.scores["3d_scatter"] = 800
        /\ ret.value.scores["profile"] = 700
        /\ ret.value.scores["map"] = 600
        /\ ret.value.scores["ts_diagram"] = 400
        /\ ret.value.scores["time_series"] = 300

\* the classifier raised on a prompt and a threshold for which the regular
\* path selects something else
C11_Witness ==
    /\ ret # NoValue /\ call.raises
    /\ call.prompt = "temperature over time" /\ call.threshold = 850
    /\ ret.value.chosen = <<"3d_scatter", "profile", "map">>
    /\ classify_prompt(call.prompt, call.threshold, call.proba, FALSE).chosen
          # ret.value.chosen

\* C16: on every return path the returned score set has an entry for each of
\* the six labels of the fixed set, and every value lies in [0, 1]
C16_ScoresCoverLabelSet ==
    (ret # NoValue) =>
        /\ DOMAIN ret.value.scores = ChartTypes
        /\ \A label \in DOMAIN ret.value.scores :
              ret.value.scores[label] >= 0 /\ ret.value.scores[label] <= 1000

\* C17: before the floor rule the blended score of each label is
\* max(rule score, 0.8 * lexical score), so it is never below the rule score
\* and never above max(rule score, 0.8); the returned score is the blended one
\* or, for a label the fill added, that score raised to 0.5
C17_BlendIsWeightedMax ==
    (ret # NoValue /\ ~call.raises) =>
        LET rule == intelligent_scores(call.prompt)
            lexical == LexicalScores(call.proba)
            blended == BlendedScores(call.prompt, call.proba)
        IN  \A label \in Categories :
               /\ blended[label] = Max2(rule[label], (lexical[label] * 8) \div 10)
               /\ blended[label] >= rule[label]
               /\ blended[label] <= Max2(rule[label], 800)
               /\ ret.value.scores[label] \in {blended[label], Max2(blended[label], 500)}

\* the lexical score decides the blended score of one label and the rule score
\* that of another
C17_Witness ==
    /\ ret # NoValue /\ ~call.raises
    /\ call.prompt = "temperature over time"
    /\ LexicalScores(call.proba)["profile"] = 1000
    /\ ret.value.scores["profile"] = 800
    /\ ret.value.scores["time_series"] = 900

\* C18: every matching keyword group only sets or raises scores: after the
\* scan a label's rule score is at least the boost of any matching group, so a
\* prompt matching the profile group and the map group keeps profile at 0.9
C18_GroupsOnlyRaise ==
    (ret # NoValue /\ ~call.raises) =>
        LET pl == Lower(call.prompt)
            rule == intelligent_scores(call.prompt)
            atLeast(words, a, x, b, y, c, z) ==
                AnyIn(words, pl) => (rule[a] >= x /\ rule[b] >= y /\ rule[c] >= z)
        IN  /\ atLeast(ProfileWords, "profile", 900, "ts_diagram", 700, "3d_scatter", 600)
            /\ atLeast(TimeWords, "time_series", 900, "map", 600, "profile", 500)
            /\ atLeast(MapWords, "map", 900, "3d_scatter", 800, "profile", 600)
            /\ atLeast(TSWords, "ts_diagram", 900, "profile", 800, "3d_scatter", 600)
            /\ atLeast(ThreeDWords, "3d_scatter", 900, "profile", 600, "map", 700)
            /\ atLeast(OceanWords, "3d_scatter", 700, "profile", 600, "map", 600)

\* C19: when at least two labels have a blended score of at least the
\* threshold, the selection is exactly those labels if they are at most four,
\* and otherwise four of them, no excluded one scoring strictly higher than an
\* included one
C19_SelectionIsQualifying ==
    (ret # NoValue /\ ~call.raises) =>
        LET blended == BlendedScores(call.prompt, call.proba)
            qualifying == {label \in Categories : blended[label] >= call.threshold}
            chosen == {ret.value.chosen[i] : i \in 1..Len(ret.value.chosen)}
        IN  Cardinality(qualifying) >= 2 =>
               /\ Cardinality(chosen) = Len(ret.value.chosen)
               /\ Cardinality(qualifying) <= 4 => chosen = qualifying
               /\ Cardinality(qualifying) > 4 =>
                     /\ chosen \subseteq qualifying
                     /\ Cardinality(chosen) = 4
                     /\ \A out \in qualifying \ chosen, in \in chosen :
                           blended[out] <= blended[in]

\* five labels qualify, and the one left out is the only one with the least score
C19_Witness ==
    /\ ret # NoValue /\ ~call.raises
    /\ call.prompt = "show me the water profile of mumbai" /\ call.threshold = 80
    /\ \A label \in Categories :
          BlendedScores(call.prompt, call.proba)[label] >= call.threshold
    /\ ret.value.chosen = <<"map", "3d_scatter", "ts_diagram", "profile">>

\* C20: when fewer than two labels qualify, labels scoring above 0.2 are added
\* in descending order only until the selection holds two labels: the fill
\* never makes the selection longer than two, and it reaches two whenever
\* enough labels above 0.2 exist
C20_FillStopsAtTwo ==
    (ret # NoValue /\ ~call.raises) =>
        LET blended == BlendedScores(call.prompt, call.proba)
            qualifying == {label \in Categories : blended[label] >= call.threshold}
            fillable == {label \in Categories \ qualifying : blended[label] > 200}
        IN  Cardinality(qualifying) < 2 =>
               /\ Len(ret.value.chosen) <= 2
               /\ Cardinality(qualifying \cup fillable) >= 2 => Len(ret.value.chosen) = 2

-----------------------------------------------------------------------------
(* More properties of process_user_query, under Spec *)

\* C12: whenever the narration collaborator is unavailable or its call fails,
\* the narrative of the response is the deterministic template narrative, and
\* the request is not failed because of it
C12_TemplateNarrative ==
    (/\ pc = "done" /\ "internal" \notin faults
     /\ ("narration_unavailable" \in faults \/ "narration_failed" \in faults)) =>
        /\ response.success = TRUE
        /\ response.chat_response =
              generate_fallback_response(req.user_query, req.data_summary)

\* C13: if the generation of the charts raises, the stage result is an empty
\* chart list with the error text, summarization and narration still run, and
\* the final response carries an empty chart list and the narrative
C13_BrokenRendererDoesNotBlock ==
    (pc # "idle" /\ req.plot_result # NoValue /\ req.plot_result.success = FALSE) =>
        /\ req.plot_result.plots = <<>>
        /\ "error" \in DOMAIN req.plot_result /\ req.plot_result.error # ""
        /\ pc \in {"summary", "narrate", "package", "done"}
        /\ (pc = "done" /\ "internal" \notin faults) =>
              /\ InSeq("summarization", trace) /\ InSeq("narration", trace)
              /\ response.success = TRUE
              /\ response.plots = <<>>
              /\ response.chat_response = req.chat_response

\* the generation of the charts raised and the narrator's text was delivered
C13_Witness ==
    /\ pc = "done" /\ faults = {"render_failed"}
    /\ req.plot_result.success = FALSE
    /\ trace = <<"intent", "retrieval", "visualization", "summarization",
                 "narration", "package">>
    /\ response.success = TRUE /\ response.plots = <<>>
    /\ StartsWith(response.chat_response, "The water column is warm")

\* C14: no component state that outlives a request is written by a request:
\* every field of the components has the value it had after initialization
C14_NoStateOutlivesRequest ==
    conversation_history = <<>>

\* C15: the category of every query intent the pipeline carries, the fallback
\* intent included, is one of profile, time_series, spatial, float_specific,
\* general
C15_IntentCategory ==
    (pc # "idle" /\ req.sql_metadata # NoValue) =>
        req.sql_metadata.query_type \in
            {"profile", "time_series", "spatial", "float_specific", "general"}

-----------------------------------------------------------------------------
(* Selection and lexical scoring of classify_prompt, under SpecClassify *)

\* C21: when no label has a blended score of at least the threshold, the
\* returned selection is exactly {3d_scatter, profile}
C21_ForcedDefault ==
    (ret # NoValue /\ ~call.raises) =>
        LET blended == ApplyFloor(BlendedScores(call.prompt, call.proba))
        IN  (\A label \in Categories : blended[label] < call.threshold) =>
               /\ Len(ret.value.chosen) = 2
               /\ {ret.value.chosen[i] : i \in 1..Len(ret.value.chosen)}
                     = {"3d_scatter", "profile"}

\* C22: the threshold filter, the fill, the forced default and the cut leave
\* the score set unchanged: the returned scores are the blended scores after
\* the floor rule
C22_SelectionKeepsScores ==
    (ret # NoValue /\ ~call.raises) =>
        ret.value.scores = ApplyFloor(BlendedScores(call.prompt, call.proba))

\* C30: the lexical score of every chart label is that label's own classifier
\* output, the probability that the label applies
C30_LexicalScorePerLabel ==
    (ret # NoValue /\ ~call.raises) =>
        \A label \in Categories :
            LexicalScores(call.proba)[label] =
                call.proba[CHOOSE k \in 1..Len(plot_labels) : plot_labels[k] = label]

-----------------------------------------------------------------------------
(* Properties of the generated query, under SpecExtract *)

\* C23: the category of a generated query is profile if it orders by pressure
\* ascending, else time_series if it orders by date, else spatial if it uses a
\* distance function, else float_specific if it names a float id, else
\* general; the spatial flag is set exactly for the spatial category, and a
\* query ordered by pressure descending is not categorised profile
C23_CategoryPrecedence ==
    (ret # NoValue /\ call.op = "generate_sql_query" /\ ~call.llm.raises) =>
        LET sql == Lower(ret.value.sql_query)
            meta == ret.value.metadata
            claimed ==
                IF Contains(sql, "order by pressure_dbar")
                      /\ ~Contains(sql, "order by pressure_dbar desc")
                THEN "profile"
                ELSE IF Contains(sql, "order by date_time") THEN "time_series"
                ELSE IF Contains(sql, "st_dwithin") \/ Contains(sql, "st_distance")
                THEN "spatial"
                ELSE IF Contains(sql, "float_id") THEN "float_specific"
                ELSE "general"
        IN  /\ meta.query_type = claimed
            /\ meta.spatial_query = (meta.query_type = "spatial")

\* C27: the cleaned query ends with a semicolon and holds none of the
\* destructive keywords in any letter case; a reply that holds one is replaced
\* by the fixed read-only SELECT
C27_CleanedQueryIsReadOnly ==
    (ret # NoValue /\ call.op = "generate_sql_query" /\ ~call.llm.raises) =>
        LET out == ret.value.sql_query
        IN  /\ Len(out) >= 1 /\ SubSeq(out, Len(out), Len(out)) = ";"
            /\ ~AnyIn(dangerous_keywords, Upper(out))
            /\ AnyIn(dangerous_keywords, Upper(call.llm.content)) =>
                  out = "SELECT * FROM argo_floats ORDER BY date_time DESC LIMIT 1000;"

C27_Witness ==
    /\ ret # NoValue /\ call.op = "generate_sql_query" /\ ~call.llm.raises
    /\ Contains(call.llm.content, "delete from")
    /\ ret.value.sql_query = "SELECT * FROM argo_floats ORDER BY date_time DESC LIMIT 1000;"

-----------------------------------------------------------------------------
(* Properties of the pipeline and of the endpoint, under Spec *)

\* C24: when the retrieved table has pressure, temperature and salinity
\* columns with numeric values, the depth, temperature and salinity ranges of
\* the data summary are computed from those columns
C24_RangesFromColumns ==
    (req.data_summary # NoValue) =>
        LET df == req.df
            filled(c) == /\ HasCol(df, c)
                         /\ dropna(df.cols[c]) # <<>>
                         /\ ~FloatRaises(df.cols[c])
        IN  (filled("Pressure_dbar") /\ filled("Temperature_Celsius")
                /\ filled("Salinity_PSU")) =>
               /\ req.data_summary.depth_range =
                     [surface |-> FloatMin(df.cols["Pressure_dbar"]),
                      bottom |-> FloatMax(df.cols["Pressure_dbar"])]
               /\ req.data_summary.temp_range =
                     [min |-> FloatMin(df.cols["Temperature_Celsius"]),
                      max |-> FloatMax(df.cols["Temperature_Celsius"]),
                      mean |-> FloatMean(df.cols["Temperature_Celsius"])]
               /\ req.data_summary.salinity_range =
                     [min |-> FloatMin(df.cols["Salinity_PSU"]),
                      max |-> FloatMax(df.cols["Salinity_PSU"]),
                      mean |-> FloatMean(df.cols["Salinity_PSU"])]

\* C25: the stages are entered in the order intent, retrieval, visualization,
\* summarization, narration, each at most once; no stage is entered after a
\* terminal response; the complete response is assembled only after the
\* narration has returned
C25_StageOrder ==
    LET order == <<"intent", "retrieval", "visualization", "summarization",
                   "narration", "package">>
        stages == SelectSeq(trace, LAMBDA e : e # "except")
    IN  /\ Len(stages) <= Len(order) /\ stages = SubSeq(order, 1, Len(stages))
        /\ \A i \in 1..Len(trace) : trace[i] = "except" => i = Len(trace)
        /\ (response # NoValue) =>
              /\ pc = "done"
              /\ IF response.success
                 THEN trace = order /\ req.chat_response = response.chat_response
                 ELSE trace[Len(trace)] \in {"retrieval", "except"}
        /\ (trace # <<>> /\ trace[Len(trace)] = "except") => response # NoValue

C25_Witness ==
    /\ response # NoValue /\ response.success
    /\ trace = <<"intent", "retrieval", "visualization", "summarization",
                 "narration", "package">>

\* C26: on a table with rows a chart that fails is skipped and never makes
\* the generation of the plots fail, and the plots returned are the charts
\* that were rendered, in the order of the selection, or the single default
\* 3d_scatter when none was
C26_RenderFailuresIsolated ==
    (req.plot_result # NoValue /\ ~Empty(req.df)) =>
        /\ req.plot_result.success
        /\ LET types == [i \in 1..Len(req.plot_result.plots) |->
                            req.plot_result.plots[i].plot_type]
               chosen == req.plot_result.chosen_plots
           IN  \/ types = <<"3d_scatter">>
               \/ /\ types # <<>>
                  /\ types = SelectSeq(chosen, LAMBDA c : InSeq(c, types))

\* C28: the success field of the reply of /api/chat is the success of the
\* result of the pipeline
C28_ReplySuccessIsPipelineSuccess ==
    (ret # NoValue /\ ret.value.status = 200) =>
        ret.value.body.success = response.success

\* C29: records_analyzed of the reply of /api/chat is the number of records
\* the pipeline retrieved, the total_records of the data summary of its result
C29_RecordsAnalyzedIsTotalRecords ==
    (ret # NoValue /\ ret.value.status = 200 /\ "data_summary" \in DOMAIN response) =>
        ret.value.body.data_summary.records_analyzed =
            response.data_summary.total_records

=============================================================================
